---- MODULE Spec2Model ----
(***************************************************************************)
(* Model of the monitoring shims of the backend:                           *)
(*   api/src/lib/monitoring/sentry.py        (redaction callbacks)         *)
(*   api/src/lib/monitoring/app_insights.py  (adapter and middleware)      *)
(*                                                                         *)
(* Python str values that the code inspects (header keys, extra keys,      *)
(* query strings, URLs) are sequences of one-character strings, so that    *)
(* str.lower, str.replace and the `in` substring test are computed         *)
(* character by character.  Values the code only moves around are TLA+     *)
(* strings.  A Python dict is a function whose DOMAIN is its key set.      *)
(***************************************************************************)
EXTENDS Integers, Sequences, FiniteSets, TLC

VARIABLES
    \* ---- sentry.py: before_send_filter
    event,          \* the event dict the callback mutates and returns
    input,          \* the event as it was handed to the first call
    history,        \* the value returned by each call so far
    \* ---- sentry.py: before_breadcrumb_filter
    crumb,          \* the breadcrumb handed to the callback
    crumbOut,       \* <<>>, or <<what the callback returned>>
    \* ---- app_insights.py: environment and module globals
    conn,           \* os.getenv("APPLICATIONINSIGHTS_CONNECTION_STRING")
    tracer,         \* _tracer
    metricsExporter,\* _metrics_exporter
    logger,         \* _logger
    \* ---- the process-wide logging.getLogger(__name__) object
    handlers,       \* AzureLogHandler objects attached to it
    loggerLevel,    \* its level
    \* ---- what reached the vendor libraries
    logCalls,       \* calls made on the logger, in order
    metrics,        \* measurements recorded through the stats recorder
    spans,          \* span handles entered and not yet exited
    vendorSpans,    \* spans started on the tracer
    exportCalls,    \* exporter.export / export_metrics calls made by flush
    \* ---- bookkeeping
    raised,         \* an adapter call let an exception out
    calls,          \* adapter calls made so far
    inits,          \* how each init_app_insights call so far ended
    reqs            \* the requests passing through app_insights_middleware

sendVars    == <<event, input, history>>
crumbVars   == <<crumb, crumbOut>>
globalVars  == <<tracer, metricsExporter, logger, handlers, loggerLevel>>
vendorVars  == <<logCalls, metrics, spans, vendorSpans, exportCalls>>
adapterVars == <<conn, globalVars, vendorVars, raised, calls, inits, reqs>>
vars == <<sendVars, crumbVars, adapterVars>>

(***************************************************************************)
(* Python str helpers                                                      *)
(***************************************************************************)
\* str.lower(), one character at a time.  The strings of this module are
\* written in Latin-1; these are all the Latin-1 characters str.lower()
\* changes, each to a single Latin-1 character.
UpperChars == <<"A","B","C","D","E","F","G","H","I","J","K","L","M",
                 "N","O","P","Q","R","S","T","U","V","W","X","Y","Z",
                 "À","Á","Â","Ã","Ä","Å","Æ","Ç","È","É","Ê","Ë","Ì",
                 "Í","Î","Ï","Ð","Ñ","Ò","Ó","Ô","Õ","Ö","Ø","Ù","Ú",
                 "Û","Ü","Ý","Þ">>
LowerChars == <<"a","b","c","d","e","f","g","h","i","j","k","l","m",
                 "n","o","p","q","r","s","t","u","v","w","x","y","z",
                 "à","á","â","ã","ä","å","æ","ç","è","é","ê","ë","ì",
                 "í","î","ï","ð","ñ","ò","ó","ô","õ","ö","ø","ù","ú",
                 "û","ü","ý","þ">>

LowerChar(c) ==
    IF \E i \in 1..Len(UpperChars) : UpperChars[i] = c
    THEN LowerChars[CHOOSE i \in 1..Len(UpperChars) : UpperChars[i] = c]
    ELSE c

\* str.lower()
Lower(s) == [i \in 1..Len(s) |-> LowerChar(s[i])]

\* sub in s
Contains(s, sub) ==
    \E i \in 0..(Len(s) - Len(sub)) : SubSeq(s, i + 1, i + Len(sub)) = sub

StartsWith(s, p) == Len(s) >= Len(p) /\ SubSeq(s, 1, Len(p)) = p

\* s.replace(old, new): every non-overlapping occurrence, left to right
RECURSIVE Replace(_, _, _)
Replace(s, old, new) ==
    IF Len(s) < Len(old) THEN s
    ELSE IF StartsWith(s, old)
         THEN new \o Replace(SubSeq(s, Len(old) + 1, Len(s)), old, new)
         ELSE <<Head(s)>> \o Replace(Tail(s), old, new)

\* d.pop(k, None), as the dict it leaves behind
Pop(d, k) == [x \in DOMAIN d \ {k} |-> d[x]]

\* d[k] = v
Put(d, k, v) == [x \in DOMAIN d \cup {k} |-> IF x = k THEN v ELSE d[x]]

Has(d, k) == k \in DOMAIN d

EmptyDict == [x \in {} |-> x]

(***************************************************************************)
(* String literals of sentry.py                                            *)
(***************************************************************************)
AuthorizationKey == <<"a","u","t","h","o","r","i","z","a","t","i","o","n">>
CookieKey        == <<"c","o","o","k","i","e">>
XApiKeyKey       == <<"x","-","a","p","i","-","k","e","y">>
TokenEq          == <<"t","o","k","e","n","=">>
ApiKeyEq         == <<"a","p","i","_","k","e","y","=">>
RedactedChars    == <<"[","R","E","D","A","C","T","E","D","]">>
PasswordWord     == <<"p","a","s","s","w","o","r","d">>
SecretWord       == <<"s","e","c","r","e","t">>
Redacted         == "[REDACTED]"

(***************************************************************************)
(* before_send_filter, block by block                                      *)
(***************************************************************************)
\* headers.pop("authorization"); headers.pop("cookie"); headers.pop("x-api-key")
FilterHeaders(headers) ==
    Pop(Pop(Pop(headers, AuthorizationKey), CookieKey), XApiKeyKey)

\* query.replace("token=", ...).replace("api_key=", ...)
SanitizeQuery(query) ==
    Replace(Replace(query, TokenEq, TokenEq \o RedactedChars),
            ApiKeyEq, ApiKeyEq \o RedactedChars)

FilterRequest(request) ==
    LET r1 == IF Has(request, "headers")
              THEN Put(request, "headers", FilterHeaders(request["headers"]))
              ELSE request
    IN  IF Has(r1, "query_string") /\ r1["query_string"] # <<>>
        THEN Put(r1, "query_string", SanitizeQuery(r1["query_string"]))
        ELSE r1

\* the test without key.lower()
SensitiveKeyExactCase(key) ==
    Contains(key, PasswordWord) \/ Contains(key, SecretWord)

SensitiveKey(key) ==
    Contains(Lower(key), PasswordWord) \/ Contains(Lower(key), SecretWord)

FilterExtra(extra) ==
    [k \in DOMAIN extra |-> IF SensitiveKey(k) THEN Redacted ELSE extra[k]]

FilterContexts(contexts) ==
    LET c1 == IF Has(contexts, "database")
                 /\ Has(contexts["database"], "connection_string")
              THEN Put(contexts, "database",
                       Put(contexts["database"], "connection_string", Redacted))
              ELSE contexts
    IN  IF Has(c1, "stripe")
        THEN Put(c1, "stripe", Pop(Pop(c1["stripe"], "secret_key"), "api_key"))
        ELSE c1

before_send_filter(ev) ==
    LET e1 == IF Has(ev, "request")
              THEN Put(ev, "request", FilterRequest(ev["request"])) ELSE ev
        e2 == IF Has(e1, "extra")
              THEN Put(e1, "extra", FilterExtra(e1["extra"])) ELSE e1
    IN  IF Has(e2, "contexts")
        THEN Put(e2, "contexts", FilterContexts(e2["contexts"])) ELSE e2

(***************************************************************************)
(* app_insights.py at import time: the three globals are None and the      *)
(* module logger has no handler and no level of its own.                   *)
(***************************************************************************)
NoneVal == "None"

ModuleLoaded ==
    /\ tracer = NoneVal
    /\ metricsExporter = NoneVal
    /\ logger = NoneVal
    /\ handlers = 0
    /\ loggerLevel = "NOTSET"
    /\ logCalls = <<>>
    /\ metrics = <<>>
    /\ spans = <<>>
    /\ vendorSpans = 0
    /\ exportCalls = 0
    /\ raised = FALSE
    /\ calls = 0
    /\ inits = <<>>
    /\ reqs = <<>>

AdapterUnused == conn = NoneVal /\ ModuleLoaded

SendUnused == event = EmptyDict /\ input = EmptyDict /\ history = <<>>

CrumbUnused == crumb = EmptyDict /\ crumbOut = <<>>

(***************************************************************************)
(* Events handed to before_send_filter                                     *)
(***************************************************************************)
MaxHeaders == 2     \* header keys per event
MaxPieces  == 2     \* fragments a query string is put together from

HeaderKeys ==
    { AuthorizationKey, CookieKey, XApiKeyKey,
      <<"A","u","t","h","o","r","i","z","a","t","i","o","n">>,
      <<"C","O","O","K","I","E">>,
      <<"X","-","A","p","i","-","K","e","y">>,
      <<"U","s","e","r","-","A","g","e","n","t">> }

HeaderValue(k) ==
    IF Lower(k) = AuthorizationKey THEN "Bearer x"
    ELSE IF Lower(k) = CookieKey THEN "sid=42"
    ELSE IF Lower(k) = XApiKeyKey THEN "k-123"
    ELSE "curl"

HeaderMaps ==
    { [k \in S |-> HeaderValue(k)] :
        S \in { T \in SUBSET HeaderKeys : Cardinality(T) <= MaxHeaders } }

QueryPieces ==
    { TokenEq, ApiKeyEq,
      <<"A","B","C","1","2","3","&","p","a","g","e","=","2">> }

RECURSIVE Concat(_)
Concat(ps) == IF ps = <<>> THEN <<>> ELSE Head(ps) \o Concat(Tail(ps))

QueryStrings ==
    { Concat(ps) : ps \in UNION { [1..n -> QueryPieces] : n \in 0..MaxPieces } }

Requests ==
    { [headers |-> h, query_string |-> q] : h \in HeaderMaps, q \in QueryStrings }
    \cup { [headers |-> h] : h \in HeaderMaps }
    \cup { [query_string |-> q] : q \in QueryStrings }

ExtraKeys ==
    { <<"u","s","e","r","_","P","a","s","s","w","o","r","d">>,
      <<"C","O","N","T","R","A","S","E","Ñ","A","_","S","E","C","R","E","T">>,
      <<"n","o","t","e">> }

ExtraValue(k) == IF k = <<"n","o","t","e">> THEN "hello" ELSE "hunter2"

ExtraMaps == { [k \in S |-> ExtraValue(k)] : S \in SUBSET ExtraKeys }

ContextMaps ==
    { [database |-> [connection_string |-> "postgres://u:p@db/main", name |-> "main"],
       stripe   |-> [secret_key |-> "sk_live", api_key |-> "pk_live", account |-> "acct_1"]],
      [stripe   |-> [account |-> "acct_1"]] }

\* an event with any of the three optional sub-mappings
WithKey(d, k, present, v) == IF present THEN Put(d, k, v) ELSE d

Events ==
    { WithKey(WithKey(WithKey(EmptyDict, "request", hr, r), "extra", hx, x),
              "contexts", hc, c) :
        hr \in BOOLEAN, r \in Requests, hx \in BOOLEAN, x \in ExtraMaps,
        hc \in BOOLEAN, c \in ContextMaps }

(***************************************************************************)
(* The error-tracking client runs the callback on an outbound event; a     *)
(* second run is the callback applied to its own result.                   *)
(***************************************************************************)
InitSend ==
    /\ event \in Events
    /\ input = event
    /\ history = <<>>
    /\ CrumbUnused
    /\ AdapterUnused

BeforeSend ==
    /\ Len(history) < 2
    /\ event' = before_send_filter(event)
    /\ history' = Append(history, event')
    /\ UNCHANGED <<input, crumbVars, adapterVars>>

NextSend == BeforeSend

SpecSend == InitSend /\ [][NextSend]_vars

(***************************************************************************)
(* before_breadcrumb_filter                                                *)
(***************************************************************************)
AnalyticsWord == <<"a","n","a","l","y","t","i","c","s">>
TrackingWord  == <<"t","r","a","c","k","i","n","g">>
SegmentWord   == <<"s","e","g","m","e","n","t">>
MixpanelWord  == <<"m","i","x","p","a","n","e","l">>
UrlDenylist   == { AnalyticsWord, TrackingWord, SegmentWord, MixpanelWord }

\* what the callback returns: None, or the breadcrumb
ReturnNone     == [ret |-> "None"]
ReturnCrumb(c) == [ret |-> "crumb", value |-> c]

\* crumb.get("category")
CategoryOf(c) == IF Has(c, "category") THEN c["category"] ELSE "None"

\* crumb.get("data", {}).get("url", "")
UrlOf(c) ==
    LET data == IF Has(c, "data") THEN c["data"] ELSE EmptyDict
    IN  IF Has(data, "url") THEN data["url"] ELSE <<>>

\* the URL test applied whatever the category is
before_breadcrumb_filter_any_category(c) ==
    IF CategoryOf(c) = "query" THEN ReturnNone
    ELSE IF \E x \in UrlDenylist : Contains(UrlOf(c), x)
         THEN ReturnNone
         ELSE ReturnCrumb(c)

before_breadcrumb_filter(c) ==
    IF CategoryOf(c) = "query" THEN ReturnNone
    ELSE IF CategoryOf(c) = "httplib"
            /\ \E x \in UrlDenylist : Contains(UrlOf(c), x)
         THEN ReturnNone
         ELSE ReturnCrumb(c)

MaxUrlPieces == 2   \* fragments a URL is put together from

UrlPieces ==
    UrlDenylist \cup
    { <<"h","t","t","p","s",":","/","/">>,
      <<"A","n","a","l","y","t","i","c","s">>,
      <<"a","p","i",".","e","x","a","m","p","l","e",".","c","o","m","/">>,
      <<"s","e","g">> }

Urls == { Concat(ps) : ps \in UNION { [1..n -> UrlPieces] : n \in 0..MaxUrlPieces } }

Categories == { "query", "httplib", "http", "navigation" }

CrumbData ==
    { EmptyDict, [method |-> "GET"] }
    \cup { [url |-> u] : u \in Urls }
    \cup { [url |-> u, method |-> "GET"] : u \in Urls }

Crumbs ==
    { WithKey(WithKey([message |-> "m"], "category", hc, cat), "data", hd, d) :
        hc \in BOOLEAN, cat \in Categories, hd \in BOOLEAN, d \in CrumbData }

InitCrumb ==
    /\ crumb \in Crumbs
    /\ crumbOut = <<>>
    /\ SendUnused
    /\ AdapterUnused

BeforeBreadcrumb ==
    /\ crumbOut = <<>>
    /\ crumbOut' = <<before_breadcrumb_filter(crumb)>>
    /\ UNCHANGED <<crumb, sendVars, adapterVars>>

NextCrumb == BeforeBreadcrumb

SpecCrumb == InitCrumb /\ [][NextCrumb]_vars

(***************************************************************************)
(* app_insights.py: init_app_insights                                      *)
(***************************************************************************)
MaxInits    == 2    \* init_app_insights calls
MaxCalls    == 2    \* adapter calls made directly by the application
MaxRequests == 2    \* requests passing through the middleware

ConnValues == { NoneVal, "", "InstrumentationKey=00000000" }

\* the vendor calls of the try block, in order (lines 58, 62, 63, 65, 68, 75)
InitSteps == << "trace_integrations", "AzureExporter", "ProbabilitySampler",
                "Tracer", "new_metrics_exporter", "AzureLogHandler" >>

FailPoints == { "none" } \cup { InitSteps[i] : i \in 1..Len(InitSteps) }

StepNo(step) == CHOOSE i \in 1..Len(InitSteps) : InitSteps[i] = step

\* the vendor call `step` returned, given the call that throws
Completed(step, fail) == fail = "none" \/ StepNo(step) < StepNo(fail)

\* `if not connection_string: return`
NotConfigured == conn = NoneVal \/ conn = ""

init_app_insights(fail) ==
    /\ Len(inits) < MaxInits
    /\ inits' = Append(inits, IF NotConfigured THEN "not_configured"
                              ELSE IF fail = "none" THEN "ok" ELSE "failed")
    /\ IF NotConfigured
       THEN UNCHANGED globalVars
       ELSE /\ tracer' = IF Completed("Tracer", fail) THEN "Tracer" ELSE tracer
            /\ metricsExporter' = IF Completed("new_metrics_exporter", fail)
                                  THEN "MetricsExporter" ELSE metricsExporter
            \* _logger = logging.getLogger(__name__) runs before AzureLogHandler(...)
            /\ logger' = IF Completed("new_metrics_exporter", fail)
                         THEN "Logger" ELSE logger
            /\ handlers' = IF Completed("AzureLogHandler", fail)
                           THEN handlers + 1 ELSE handlers
            /\ loggerLevel' = IF Completed("AzureLogHandler", fail)
                              THEN "INFO" ELSE loggerLevel
    \* `except Exception` swallows whatever the vendor threw
    /\ UNCHANGED <<conn, vendorVars, raised, calls, reqs, sendVars, crumbVars>>

(***************************************************************************)
(* The logging module: a record below the logger's effective level is      *)
(* discarded, every other record goes to each attached handler.            *)
(***************************************************************************)
LevelOrder == << "DEBUG", "INFO", "WARNING", "ERROR", "CRITICAL" >>
LevelNo(l) == CHOOSE i \in 1..Len(LevelOrder) : LevelOrder[i] = l
EffectiveLevel == IF loggerLevel = "NOTSET" THEN "WARNING" ELSE loggerLevel
Delivered(level) == IF LevelNo(level) >= LevelNo(EffectiveLevel) THEN handlers ELSE 0

\* {**a, **b}
Merge(a, b) ==
    [k \in DOMAIN a \cup DOMAIN b |-> IF k \in DOMAIN b THEN b[k] ELSE a[k]]

\* Optional[dict]: <<>> is None, <<d>> is the dict d
None    == <<>>
Some(d) == <<d>>
OrEmpty(p) == IF p = None THEN EmptyDict ELSE p[1]

\* _logger.<level>(msg, extra={'custom_dimensions': dims}); on None it is an
\* AttributeError.  req is the request the call was made for (0: none).
LoggerCall(fn, level, msg, dims, req) ==
    IF logger = NoneVal
    THEN raised' = TRUE /\ logCalls' = logCalls
    ELSE /\ logCalls' = Append(logCalls,
                [fn |-> fn, level |-> level, msg |-> msg, dims |-> dims,
                 req |-> req, delivered |-> Delivered(level)])
         /\ raised' = raised

\* the guard left out
GuardMissing == FALSE

\* `if not _logger: return`
LoggerUnset == logger = NoneVal
\* `if not _metrics_exporter: return`
MetricsExporterUnset == metricsExporter = NoneVal
\* `if _tracer:` / `if not _tracer:`
TracerUnset == tracer = NoneVal

(***************************************************************************)
(* The tracking functions, as the change each makes to logCalls and raised *)
(***************************************************************************)
track_event(name, properties, measurements, req) ==
    IF LoggerUnset THEN UNCHANGED <<logCalls, raised>>
    ELSE LoggerCall("track_event", "INFO", <<"Event: ", name>>,
            Merge(Merge([event_name |-> name], OrEmpty(properties)),
                  OrEmpty(measurements)), req)

\* str(severity) -> the logger method track_exception picks
ExceptionLevel(severity) ==
    IF severity = "CRITICAL" THEN "CRITICAL"
    ELSE IF severity = "WARNING" THEN "WARNING"
    ELSE "ERROR"

track_exception(error, severity, properties, req) ==
    IF LoggerUnset THEN UNCHANGED <<logCalls, raised>>
    ELSE LoggerCall("track_exception", ExceptionLevel(severity), error.message,
            Merge([exception_type |-> error.type,
                   exception_message |-> error.message], OrEmpty(properties)), req)

TraceLevel(severity) ==
    IF severity \in { "DEBUG", "WARNING", "ERROR", "CRITICAL" } THEN severity
    ELSE "INFO"

track_trace(message, severity, properties, req) ==
    IF LoggerUnset THEN UNCHANGED <<logCalls, raised>>
    ELSE LoggerCall("track_trace", TraceLevel(severity), message,
            OrEmpty(properties), req)

track_request(name, url, duration, response_code, success, properties, req) ==
    IF LoggerUnset THEN UNCHANGED <<logCalls, raised>>
    ELSE LoggerCall("track_request", "INFO", <<"Request: ", name>>,
            Merge([request_name |-> name, url |-> url, duration_ms |-> duration,
                   response_code |-> response_code, success |-> success],
                  OrEmpty(properties)), req)

track_dependency(name, dependency_type, target, duration, success, result_code, properties, req) ==
    IF LoggerUnset THEN UNCHANGED <<logCalls, raised>>
    ELSE LoggerCall("track_dependency", "INFO", <<"Dependency: ", name>>,
            Merge([dependency_name |-> name, dependency_type |-> dependency_type,
                   target |-> target, duration_ms |-> duration,
                   success |-> success, result_code |-> result_code],
                  OrEmpty(properties)), req)

(***************************************************************************)
(* track_metric.  properties is None or a dict given as the sequence of    *)
(* its (key, value) items in iteration order.                              *)
(***************************************************************************)
Items(properties) == IF properties = None THEN <<>> ELSE properties[1]

\* what the name `value` is bound to at line 164, after the loop of line 161
\* has used `value` as its loop variable
MeasuredValue(value, properties) ==
    LET items == Items(properties)
    IN  IF items # <<>> THEN items[Len(items)][2] ELSE value

TagMap(properties) ==
    LET items == Items(properties)
    IN  [k \in { items[i][1] : i \in 1..Len(items) } |->
            items[CHOOSE i \in 1..Len(items) : items[i][1] = k][2]]

track_metric(name, value, properties) ==
    IF MetricsExporterUnset THEN UNCHANGED <<metrics, raised>>
    ELSE /\ metrics' = Append(metrics,
                [name |-> name, value |-> MeasuredValue(value, properties),
                 tags |-> TagMap(properties), arg |-> value])
         /\ raised' = raised

(***************************************************************************)
(* set_user, clear_user, start_span, flush                                 *)
(***************************************************************************)
NoOpSpan == [kind |-> "NoOpSpan", attrs |-> EmptyDict]
RealSpan == [kind |-> "Span", attrs |-> EmptyDict]

\* _tracer.current_span(): index of the innermost open tracer span, 0 if none
CurrentSpan ==
    LET open == { i \in 1..Len(spans) : spans[i].kind = "Span" }
    IN  IF open = {} THEN 0 ELSE CHOOSE i \in open : \A j \in open : j <= i

Truthy(str) == str # NoneVal /\ str # ""

set_user(user_id, account_id) ==
    IF ~TracerUnset /\ CurrentSpan # 0
    THEN LET a1 == Put(spans[CurrentSpan].attrs, "user_id", user_id)
             a2 == IF Truthy(account_id) THEN Put(a1, "account_id", account_id)
                   ELSE a1
         IN  spans' = [spans EXCEPT ![CurrentSpan].attrs = a2]
    ELSE spans' = spans

\* start_span(name) and the __enter__ of the `with` statement using it
start_span(name) ==
    IF TracerUnset
    THEN spans' = Append(spans, NoOpSpan) /\ vendorSpans' = vendorSpans
    ELSE spans' = Append(spans, RealSpan) /\ vendorSpans' = vendorSpans + 1

flush ==
    exportCalls' = exportCalls + (IF TracerUnset THEN 0 ELSE 1)
                               + (IF MetricsExporterUnset THEN 0 ELSE 1)

(***************************************************************************)
(* Arguments the application passes                                        *)
(***************************************************************************)
EventArgs ==
    { <<None, None>>, <<Some([plan |-> "pro"]), Some([seats |-> "3.0"])>> }
MetricValues == { "5.0", "7.5" }
MetricProperties ==
    { None, Some(<<>>), Some(<< <<"region", "eu">> >>),
      Some(<< <<"region", "eu">>, <<"tier", "gold">> >>) }
ExceptionSeverities == { "ERROR", "WARNING", "CRITICAL", "FATAL" }
TraceArgs ==
    { <<"DEBUG", None>>, <<"INFO", Some(EmptyDict)>>, <<"WARNING", None>>,
      <<"ERROR", Some([key |-> "k1"])>>, <<"CRITICAL", None>>, <<"VERBOSE", None>> }
ValueError == [type |-> "ValueError", message |-> "boom", base |-> "Exception"]
Errors ==
    { ValueError,
      [type |-> "KeyError", message |-> "'id'", base |-> "Exception"],
      [type |-> "CancelledError", message |-> "", base |-> "BaseException"] }
AccountIds == { NoneVal, "acct_9" }
DependencyArgs == { <<TRUE, "200">>, <<FALSE, NoneVal>> }

(***************************************************************************)
(* One adapter call made by the application                                *)
(***************************************************************************)
Call ==
    /\ calls < MaxCalls
    /\ calls' = calls + 1
    /\ UNCHANGED <<conn, globalVars, inits, reqs, sendVars, crumbVars>>

TrackEvent(properties, measurements) ==
    /\ Call
    /\ track_event("signup", properties, measurements, 0)
    /\ UNCHANGED <<metrics, spans, vendorSpans, exportCalls>>

TrackMetric(value, properties) ==
    /\ Call
    /\ track_metric("queue_depth", value, properties)
    /\ UNCHANGED <<logCalls, spans, vendorSpans, exportCalls>>

TrackException(severity) ==
    /\ Call
    /\ track_exception(ValueError, severity, None, 0)
    /\ UNCHANGED <<metrics, spans, vendorSpans, exportCalls>>

TrackTrace(severity, properties) ==
    /\ Call
    /\ track_trace("cache miss", severity, properties, 0)
    /\ UNCHANGED <<metrics, spans, vendorSpans, exportCalls>>

TrackRequest(response_code) ==
    /\ Call
    /\ track_request("GET /health", "http://api/health", "12.5", response_code,
                     response_code < 400, None, 0)
    /\ UNCHANGED <<metrics, spans, vendorSpans, exportCalls>>

TrackDependency(success, result_code) ==
    /\ Call
    /\ track_dependency("users-db", "SQL", "db:5432", "3.2", success, result_code,
                        None, 0)
    /\ UNCHANGED <<metrics, spans, vendorSpans, exportCalls>>

SetUser(account_id) ==
    /\ Call
    /\ set_user("user_1", account_id)
    /\ UNCHANGED <<logCalls, metrics, vendorSpans, exportCalls, raised>>

\* clear_user(): `pass`
ClearUser ==
    /\ Call
    /\ UNCHANGED <<vendorVars, raised>>

StartSpan ==
    /\ Call
    /\ start_span("checkout")
    /\ UNCHANGED <<logCalls, metrics, exportCalls, raised>>

\* __exit__ of the innermost `with start_span(...)` block
ExitSpan ==
    /\ spans # <<>>
    /\ spans' = SubSeq(spans, 1, Len(spans) - 1)
    /\ UNCHANGED <<conn, globalVars, logCalls, metrics, vendorSpans, exportCalls,
                   raised, calls, inits, reqs, sendVars, crumbVars>>

Flush ==
    /\ Call
    /\ flush
    /\ UNCHANGED <<logCalls, metrics, spans, vendorSpans, raised>>

(***************************************************************************)
(* get_fastapi_middleware: app_insights_middleware                         *)
(***************************************************************************)
StatusCodes == { 200, 399, 400, 500 }
Method == "GET"
Path   == "/api/users"

\* the middleware is entered and awaits call_next(request)
MwStart ==
    /\ Len(reqs) < MaxRequests
    /\ reqs' = Append(reqs, [pc |-> "awaiting", enabled |-> ~LoggerUnset,
                             handler |-> <<>>, result |-> <<>>])
    /\ UNCHANGED <<conn, globalVars, vendorVars, raised, calls, inits,
                   sendVars, crumbVars>>

\* call_next returned a response: the try block runs to `return response`
MwReturn(r, status) ==
    /\ r \in 1..Len(reqs)
    /\ reqs[r].pc = "awaiting"
    /\ track_request(<<Method, " ", Path>>, <<"http://api", Path>>, "elapsed_ms",
                     status, status < 400,
                     Some([method |-> Method, path |-> Path]), r)
    /\ reqs' = [reqs EXCEPT ![r].pc = "done",
                            ![r].handler = <<[kind |-> "response", status |-> status]>>,
                            ![r].result = <<[kind |-> "response", status |-> status]>>]
    /\ UNCHANGED <<conn, globalVars, metrics, spans, vendorSpans, exportCalls,
                   calls, inits, sendVars, crumbVars>>

\* the error tracked and then swallowed: a 500 response is returned instead
MwRaiseSwallowed(r, error) ==
    /\ r \in 1..Len(reqs)
    /\ reqs[r].pc = "awaiting"
    /\ track_exception(error, "ERROR",
                       Some([method |-> Method, path |-> Path]), r)
    /\ reqs' = [reqs EXCEPT ![r].pc = "done",
                            ![r].handler = <<[kind |-> "raise", error |-> error]>>,
                            ![r].result = <<[kind |-> "response", status |-> 500]>>]
    /\ UNCHANGED <<conn, globalVars, metrics, spans, vendorSpans, exportCalls,
                   calls, inits, sendVars, crumbVars>>

\* call_next raised: `except Exception` tracks and re-raises; anything that is
\* not an Exception passes through the try statement untouched
MwRaise(r, error) ==
    /\ r \in 1..Len(reqs)
    /\ reqs[r].pc = "awaiting"
    /\ IF error.base = "Exception"
       THEN track_exception(error, "ERROR",
                            Some([method |-> Method, path |-> Path]), r)
       ELSE UNCHANGED <<logCalls, raised>>
    /\ reqs' = [reqs EXCEPT ![r].pc = "done",
                            ![r].handler = <<[kind |-> "raise", error |-> error]>>,
                            ![r].result = <<[kind |-> "raise", error |-> error]>>]
    /\ UNCHANGED <<conn, globalVars, metrics, spans, vendorSpans, exportCalls,
                   calls, inits, sendVars, crumbVars>>

(***************************************************************************)
(* The service process: start-up and everything it does afterwards         *)
(***************************************************************************)
Init ==
    /\ conn \in ConnValues
    /\ ModuleLoaded
    /\ SendUnused
    /\ CrumbUnused

Next ==
    \/ \E fail \in FailPoints : init_app_insights(fail)
    \/ \E a \in EventArgs : TrackEvent(a[1], a[2])
    \/ \E p \in { None, Some(<< <<"region", "eu">> >>) } : TrackMetric("5.0", p)
    \/ \E s \in ExceptionSeverities : TrackException(s)
    \/ \E a \in TraceArgs : TrackTrace(a[1], a[2])
    \/ \E c \in { 200, 503 } : TrackRequest(c)
    \/ \E a \in DependencyArgs : TrackDependency(a[1], a[2])
    \/ \E a \in AccountIds : SetUser(a)
    \/ ClearUser
    \/ StartSpan
    \/ ExitSpan
    \/ Flush

Spec == Init /\ [][Next]_vars

\* the metrics path alone, over every shape of the properties argument
NextMetric ==
    \/ \E fail \in FailPoints : init_app_insights(fail)
    \/ \E v \in MetricValues, p \in MetricProperties : TrackMetric(v, p)

SpecMetric == Init /\ [][NextMetric]_vars

\* a service whose only telemetry is the request middleware
NextMiddleware ==
    \/ \E fail \in FailPoints : init_app_insights(fail)
    \/ MwStart
    \/ \E r \in 1..MaxRequests, c \in StatusCodes : MwReturn(r, c)
    \/ \E r \in 1..MaxRequests, e \in Errors : MwRaise(r, e)

SpecMiddleware == Init /\ [][NextMiddleware]_vars

(***************************************************************************)
(* Properties of before_send_filter (SpecSend)                             *)
(***************************************************************************)
SensitiveHeaderNames == { AuthorizationKey, CookieKey, XApiKeyKey }

HeadersIn  == input["request"]["headers"]
HeadersOut == history[1]["request"]["headers"]
HasHeaders == Has(input, "request") /\ Has(input["request"], "headers")

\* C1: after the callback, no header whose name is authorization, cookie or
\* x-api-key in any letter casing is left, and every other header of the
\* event is still there with its value.
C1_SensitiveHeadersRemovedAnyCase ==
    (Len(history) >= 1 /\ HasHeaders) =>
        /\ DOMAIN HeadersOut \subseteq DOMAIN HeadersIn
        /\ \A k \in DOMAIN HeadersIn :
              IF Lower(k) \in SensitiveHeaderNames
              THEN k \notin DOMAIN HeadersOut
              ELSE k \in DOMAIN HeadersOut /\ HeadersOut[k] = HeadersIn[k]

\* the characters of s after the end of the parameter value s starts with
RECURSIVE AfterValue(_)
AfterValue(s) ==
    IF s = <<>> \/ Head(s) = "&" THEN s ELSE AfterValue(Tail(s))

\* the query string with the value of every token= and api_key= parameter
\* replaced by [REDACTED] and every other character kept
RECURSIVE ValuesRedacted(_)
ValuesRedacted(s) ==
    IF s = <<>> THEN <<>>
    ELSE IF StartsWith(s, TokenEq)
    THEN TokenEq \o RedactedChars
         \o ValuesRedacted(AfterValue(SubSeq(s, Len(TokenEq) + 1, Len(s))))
    ELSE IF StartsWith(s, ApiKeyEq)
    THEN ApiKeyEq \o RedactedChars
         \o ValuesRedacted(AfterValue(SubSeq(s, Len(ApiKeyEq) + 1, Len(s))))
    ELSE <<Head(s)>> \o ValuesRedacted(Tail(s))

HasQuery ==
    /\ Has(input, "request")
    /\ Has(input["request"], "query_string")
    /\ input["request"]["query_string"] # <<>>

\* C2: after the callback, a non-empty query string is the original with the
\* value of each token= and api_key= parameter replaced by [REDACTED] and
\* nothing else changed (so unchanged when it has neither parameter).
C2_QueryValuesReplaced ==
    (Len(history) >= 1 /\ HasQuery) =>
        history[1]["request"]["query_string"]
            = ValuesRedacted(input["request"]["query_string"])

\* C3: the callback applied to its own result returns that result.
C3_FilterIdempotent ==
    Len(history) = 2 => history[2] = history[1]

\* word occurs in key when letter case is ignored
MentionsIgnoringCase(key, word) ==
    \E i \in 1..(Len(key) - Len(word) + 1) :
        \A j \in 1..Len(word) : LowerChar(key[i + j - 1]) = word[j]

NamesCredential(key) ==
    MentionsIgnoringCase(key, PasswordWord) \/ MentionsIgnoringCase(key, SecretWord)

\* C5: after the callback, `extra` has exactly the keys it had; the value of
\* every key mentioning password or secret (any casing) is "[REDACTED]" and
\* every other value is the one it had.
C5_ExtraRedactedInPlace ==
    (Len(history) >= 1 /\ Has(input, "extra")) =>
        /\ Has(history[1], "extra")
        /\ DOMAIN history[1]["extra"] = DOMAIN input["extra"]
        /\ \A k \in DOMAIN input["extra"] :
              history[1]["extra"][k] =
                  IF NamesCredential(k) THEN Redacted ELSE input["extra"][k]

\* an event with a mixed-case credential key and a harmless key has been filtered
C5_Witness ==
    /\ Len(history) >= 1
    /\ Has(input, "extra")
    /\ \E k \in DOMAIN input["extra"] :
          NamesCredential(k) /\ Lower(k) # k /\ history[1]["extra"][k] = Redacted
    /\ \E k \in DOMAIN input["extra"] :
          ~NamesCredential(k) /\ history[1]["extra"][k] = "hello"

(***************************************************************************)
(* Property of before_breadcrumb_filter (SpecCrumb)                        *)
(***************************************************************************)
IsQueryCrumb(c) == Has(c, "category") /\ c["category"] = "query"

IsAnalyticsRequest(c) ==
    /\ Has(c, "category") /\ c["category"] = "httplib"
    /\ Has(c, "data") /\ Has(c["data"], "url")
    /\ \E w \in UrlDenylist : Contains(c["data"]["url"], w)

\* C4: the callback returns None for a breadcrumb of category query and for
\* a breadcrumb of category httplib whose data.url contains analytics,
\* tracking, segment or mixpanel; every other breadcrumb comes back as it was.
C4_BreadcrumbDecision ==
    crumbOut # <<>> =>
        crumbOut[1] = IF IsQueryCrumb(crumb) \/ IsAnalyticsRequest(crumb)
                      THEN ReturnNone ELSE ReturnCrumb(crumb)

\* an httplib breadcrumb to an analytics URL has been dropped
C4_WitnessDropped ==
    /\ crumbOut = <<ReturnNone>>
    /\ IsAnalyticsRequest(crumb)

\* a breadcrumb of another category with a denylisted URL has been kept
C4_WitnessKept ==
    /\ crumbOut = <<ReturnCrumb(crumb)>>
    /\ Has(crumb, "category") /\ crumb["category"] = "http"
    /\ Has(crumb, "data") /\ Has(crumb["data"], "url")
    /\ Contains(crumb["data"]["url"], MixpanelWord)

(***************************************************************************)
(* Properties of the adapter (Spec, SpecMetric, SpecMiddleware)            *)
(***************************************************************************)
NothingForwarded ==
    /\ logCalls = <<>>
    /\ metrics = <<>>
    /\ vendorSpans = 0
    /\ exportCalls = 0
    /\ \A i \in 1..Len(spans) : spans[i] = NoOpSpan

HandlesUnset ==
    tracer = NoneVal /\ metricsExporter = NoneVal /\ logger = NoneVal

\* C6: with the connection string unset or empty, init leaves the three
\* handles unset, and whatever calls follow, nothing has reached the
\* vendor libraries and no call has let an exception out.
C6_DisabledIsInert ==
    NotConfigured => HandlesUnset /\ handlers = 0 /\ NothingForwarded /\ ~raised

\* init ran without a connection string, the application then made all the
\* calls it may, and a span obtained from start_span is open
C6_Witness ==
    /\ NotConfigured
    /\ Len(inits) >= 1
    /\ calls = MaxCalls
    /\ spans # <<>>

RecordsOf(r, fn) ==
    { i \in 1..Len(logCalls) : logCalls[i].req = r /\ logCalls[i].fn = fn }

\* what request r has emitted and handed back so far, when the raise case
\* is taken to cover the errors for which tracked(error) holds
OnePathFired(r, tracked(_)) ==
    IF reqs[r].pc = "awaiting"
    THEN RecordsOf(r, "track_request") = {}
         /\ RecordsOf(r, "track_exception") = {}
    ELSE LET h == reqs[r].handler[1]
         IN  /\ reqs[r].result = <<h>>
             /\ h.kind = "response" =>
                  /\ RecordsOf(r, "track_exception") = {}
                  /\ Cardinality(RecordsOf(r, "track_request")) = 1
                  /\ \A i \in RecordsOf(r, "track_request") :
                        /\ logCalls[i].dims["response_code"] = h.status
                        /\ logCalls[i].dims["success"] = (h.status < 400)
             /\ (h.kind = "raise" /\ tracked(h.error)) =>
                  /\ RecordsOf(r, "track_request") = {}
                  /\ Cardinality(RecordsOf(r, "track_exception")) = 1
                  /\ \A i \in RecordsOf(r, "track_exception") :
                        /\ logCalls[i].dims["exception_type"] = h.error.type
                        /\ logCalls[i].dims["exception_message"] = h.error.message
             /\ (h.kind = "raise" /\ ~tracked(h.error)) =>
                  /\ RecordsOf(r, "track_request") = {}
                  /\ RecordsOf(r, "track_exception") = {}

AnyRaise(error)    == TRUE
IsException(error) == error.base = "Exception"

\* C7 as stated: a request that entered the middleware with the adapter
\* enabled emits nothing while the handler runs; when the handler returns a
\* response, one track_request with success = (status < 400) and no
\* track_exception, and the response is returned; when the handler raises,
\* whatever it raises, one track_exception carrying it and no track_request,
\* and the same error propagates.
C7_EveryRaiseTracked ==
    \A r \in 1..Len(reqs) : reqs[r].enabled => OnePathFired(r, AnyRaise)

\* C7 amended: the same, with the raise case limited to what `except
\* Exception` catches: when the handler raises an instance of Exception, one
\* track_exception carrying it and no track_request; when it raises anything
\* else (CancelledError, KeyboardInterrupt, SystemExit), nothing is emitted.
\* In both cases the same error propagates.
C7_OneEmissionPerRequest ==
    \A r \in 1..Len(reqs) : reqs[r].enabled => OnePathFired(r, IsException)

\* one request ended with ValueError("boom") and another with a 400 response,
\* both with the adapter enabled
C7_Witness ==
    /\ \E r \in 1..Len(reqs) :
          /\ reqs[r].enabled /\ reqs[r].pc = "done"
          /\ reqs[r].result = <<[kind |-> "raise", error |-> ValueError]>>
    /\ \E r \in 1..Len(reqs) :
          /\ reqs[r].enabled /\ reqs[r].pc = "done"
          /\ reqs[r].result = <<[kind |-> "response", status |-> 400]>>

AllInitsFailed ==
    /\ inits # <<>>
    /\ \A i \in 1..Len(inits) : inits[i] = "failed"

\* C8: when every init so far ended with the vendor setup throwing, no
\* exception came out of init, the three handles are unset and the calls
\* made since have forwarded nothing.
C8_FailedInitLeavesDisabled ==
    AllInitsFailed => ~raised /\ HandlesUnset /\ NothingForwarded

\* C9: however often init runs, the logger carries at most one export
\* handler and no record is exported more than once.
C9_InitTwiceExportsOnce ==
    /\ handlers <= 1
    /\ \A i \in 1..Len(logCalls) : logCalls[i].delivered <= 1

\* C10: every recorded measurement is the value argument of the call that
\* recorded it, whatever the properties were.
C10_MeasurementIsValueArgument ==
    \A i \in 1..Len(metrics) : metrics[i].value = metrics[i].arg

====
